---------------------------- MODULE Spec2Model ----------------------------
(***************************************************************************)
(* Model of the Tinkoff gRPC-web trader                                    *)
(* (src/shared/traders/tinkoff-grpc-web.js): the reference registry, the   *)
(* debounced market-data resubscribe, the single streaming session with    *)
(* its reconnect path, the order-book snapshot calls, the message router   *)
(* and the trade history fetcher.                                          *)
(***************************************************************************)
EXTENDS Integers, Sequences, FiniteSets, Bags, TLC

\* ------------------------------------------------------------------------
\* Bounds of the model
\* ------------------------------------------------------------------------
MaxSessions == 2

MaxCalls == 1

MaxTrades == 3

MaxDepth == 4

\* ------------------------------------------------------------------------
\* Universe
\* ------------------------------------------------------------------------
Instruments == {"I1", "I2"}

Widgets == {"w1", "w2"}

Kinds == {"orderbook", "allTrades"}

\* A book or trade message: its instrument, where it comes from, and whether
\* it shows the state of the server as it is now (cur) or an older one.
NoData == [instr |-> "none", cur |-> FALSE, src |-> "none"]

VARIABLES
  binding,            \* widget -> the instrument it is bound to (source.instrument)
  subs,               \* this.subs: kind -> set of widgets with an entry of that kind
  refs,               \* this.refs: kind -> instrument -> the entry of the map
  lastOrderbookData,  \* ref.lastOrderbookData of the orderbook refs
  figis,              \* this.#figis: the instruments resolvable by figi
  written,            \* history: widget -> kind -> the value the step just taken
                      \* wrote to source[field] (NoWrite: none)
  pending,            \* the debounce slot of resubscribeToMarketData
  sessions,           \* every stream session opened so far, oldest first
  calls,              \* bag of getOrderBook unary calls in flight
  timers,             \* the pending reconnect setTimeouts
  net,                \* history: subscribes minus unsubscribes per (kind, instrument)
  last,               \* history: what the step just taken did
  trades,             \* allTrades: the transport's response
  depth,              \* allTrades: the depth argument
  instrument,         \* allTrades: whether the instrument argument is present
  result,             \* allTrades: the returned array
  returned,           \* allTrades: whether the call has returned
  value,              \* toQuotation: the number converted
  quotation,          \* toQuotation: the quotation returned
  number,             \* toNumber: the number converted back
  converted,          \* whether the conversions have run
  reconnectTimeout,   \* this.document.reconnectTimeout
  now,                \* the time, in ms
  failedAt,           \* when the session failed (-1: it has not)
  timerDue,           \* when the reconnect setTimeout is due (-1: not set)
  reopenAt            \* when the callback of the setTimeout ran (-1: not yet)

tradeVars == <<trades, depth, instrument, result, returned>>

quoteVars == <<value, quotation, number, converted>>

backoffVars == <<reconnectTimeout, now, failedAt, timerDue, reopenAt>>

histVars == <<tradeVars, quoteVars, backoffVars>>

vars == <<binding, subs, refs, lastOrderbookData, figis, written, pending,
          sessions, calls, timers, net, last,
          trades, depth, instrument, result, returned,
          value, quotation, number, converted,
          reconnectTimeout, now, failedAt, timerDue, reopenAt>>

\* ------------------------------------------------------------------------
\* Helpers
\* ------------------------------------------------------------------------
Min(a, b) == IF a < b THEN a ELSE b

Max(a, b) == IF a > b THEN a ELSE b

\* An instrument without an entry in a map of this.refs
NoRef == [present |-> FALSE, refCount |-> 0]

\* [...this.refs[k].values()]: the instruments with an entry in the map
RefSet(r, k) == {i \in Instruments : r[k][i].present}

\* !this.refs.orderbook.size && !this.refs.allTrades.size
NothingReferenced(r) == RefSet(r, "orderbook") = {} /\ RefSet(r, "allTrades") = {}

\* A session is live when its stream was opened and it was neither
\* cancelled nor ended.
Live(s) == s.phase # "ended" /\ ~s.aborted

LiveSessions == {n \in 1..Len(sessions) : Live(sessions[n])}

\* the number of getOrderBook calls in flight for instrument i
InFlight(i) ==
  BagCardinality([c \in {d \in BagToSet(calls) : d.instr = i} |->
                    CopiesIn(c, calls)])

\* ------------------------------------------------------------------------
\* debounce(100): a single pending slot; a new call replaces the arguments of
\* the pending one and restarts the timer, so only the last call fires.
\* afterEnd is history too: whether one of the calls came from the end of
\* the loop over the stream.
\* many, afterFailure and emptied are history: whether several calls were
\* collapsed into the pending one, whether one of them came from a reconnect
\* timer, and whether the ref maps became empty while that timer was pending.
\* ------------------------------------------------------------------------
Idle ==
  [armed |-> FALSE, reconnect |-> FALSE, many |-> FALSE, afterFailure |-> FALSE,
   emptied |-> FALSE, afterEnd |-> FALSE]

debounce(slot, reconnect) ==
  [armed |-> TRUE,
   reconnect |-> reconnect,
   many |-> slot.armed,
   afterFailure |-> slot.afterFailure,
   emptied |-> slot.emptied,
   afterEnd |-> slot.afterEnd]

\* resubscribeToMarketData(reconnect = false), decorated with @debounce(100)
resubscribeToMarketData(slot, reconnect) == debounce(slot, reconnect)

\* ------------------------------------------------------------------------
\* History of the step just taken
\* ------------------------------------------------------------------------
\* a field left out of the stream request
Omitted == [present |-> FALSE, instruments |-> {}]

\* no stream request was sent
NoRequest ==
  [sent |-> FALSE, subscribeOrderBookRequest |-> Omitted,
   subscribeTradesRequest |-> Omitted]

Other ==
  [op |-> "other", request |-> NoRequest, many |-> FALSE,
   reconnect |-> FALSE, afterFailure |-> FALSE, afterEnd |-> FALSE,
   emptied |-> FALSE, empty |-> FALSE, opened |-> 0, reqOK |-> FALSE,
   overwrote |-> FALSE, kind |-> "none", figi |-> "none", resolved |-> FALSE,
   sid |-> 0, awaited |-> FALSE, cur |-> FALSE]

\* the debounce fired: one or many calls were collapsed, the ref maps were empty or
\* not, it opened 0 or 1 sessions, the request listed the ref maps or not
Fired(slot, empty, opened, reqOK, request) ==
  [Other EXCEPT !.op = "fire", !.request = request, !.many = slot.many,
                !.reconnect = slot.reconnect,
                !.afterFailure = slot.afterFailure, !.emptied = slot.emptied,
                !.afterEnd = slot.afterEnd,
                !.empty = empty, !.opened = opened, !.reqOK = reqOK]

\* a message of the stream was routed
Routed(kind, figi, resolved) ==
  [Other EXCEPT !.op = "message", !.kind = kind, !.figi = figi,
                !.resolved = resolved]

\* a snapshot was applied: it replaced a newer streaming delta or not
Applied(i, msg) ==
  [Other EXCEPT !.op = "snapshot", !.kind = "orderbook", !.figi = i,
                !.resolved = TRUE, !.cur = msg.cur,
                !.overwrote = /\ i \in Instruments
                              /\ lastOrderbookData'[i] = msg
                              /\ lastOrderbookData[i].src = "delta"
                              /\ lastOrderbookData[i].cur
                              /\ ~msg.cur]

\* a getOrderBook call rejected: the call of addFirstRef (sid 0) or a call of
\* the Promise.all of session sid, which was awaited by that session or not
\* the stream of session n threw an error that is not a cancellation
StreamFailed(n) == [Other EXCEPT !.op = "streamFailure", !.sid = n]

\* the stream of session n ended without an error
StreamEnded(n) == [Other EXCEPT !.op = "streamEnd", !.sid = n]

Failed(c, awaited) ==
  [Other EXCEPT !.op = "failure", !.kind = "orderbook", !.figi = c.instr,
                !.sid = c.sid, !.awaited = awaited]

\* ------------------------------------------------------------------------
\* onOrderbookMessage({ orderbook, instrument }) and
\* onTradeMessage({ trade, instrument })
\* ------------------------------------------------------------------------
\* a router that does not compare the instruments
BoundToAny(w, i) == TRUE

\* source.instrument?._id === instrument._id
BoundTo(w, i) == binding[w] = i

\* the sources of this.subs.orderbook a book message for i is written to
OrderbookTargets(i) ==
  IF i \in Instruments /\ refs["orderbook"][i].present
  THEN {w \in subs["orderbook"] : BoundTo(w, i)}
  ELSE {}

\* the sources of this.subs.allTrades a trade message for i is written to
TradeTargets(i) ==
  IF i \in Instruments
  THEN {w \in subs["allTrades"] : BoundTo(w, i)}
  ELSE {}

\* source[field] = { ... }: the value built from the message for a field
\* of datum k
Projection(k, msg) == [datum |-> k, instr |-> msg.instr, cur |-> msg.cur]

NoWrite == [datum |-> "none", instr |-> "none", cur |-> FALSE]

NoWrites == [w \in Widgets |-> [k \in Kinds |-> NoWrite]]

Writes(targets, k, msg) ==
  [w \in Widgets |->
     IF w \in targets THEN [NoWrites[w] EXCEPT ![k] = Projection(k, msg)]
     ELSE NoWrites[w]]

\* a router that leaves ref.lastOrderbookData as it is
CacheKept(cache, i, msg) == cache

\* ref.lastOrderbookData = orderbook, for the ref of every matching source
CacheAfter(cache, i, msg) ==
  IF OrderbookTargets(i) # {} THEN [cache EXCEPT ![i] = msg] ELSE cache

onOrderbookMessage(i, msg) ==
  /\ lastOrderbookData' = CacheAfter(lastOrderbookData, i, msg)
  /\ written' = Writes(OrderbookTargets(i), "orderbook", msg)

onTradeMessage(i, msg) ==
  /\ written' = Writes(TradeTargets(i), "allTrades", msg)
  /\ UNCHANGED lastOrderbookData

\* ------------------------------------------------------------------------
\* The abort controller: this.#marketDataAbortController?.abort?.()
\* The controller always belongs to the session opened last.
\* ------------------------------------------------------------------------
Aborted(s) == IF s.phase = "ended" THEN s ELSE [s EXCEPT !.aborted = TRUE]

AbortController(ss) ==
  IF Len(ss) = 0 THEN ss ELSE [ss EXCEPT ![Len(ss)] = Aborted(ss[Len(ss)])]

\* a session whose function has returned keeps no state
Ended(s) ==
  [phase |-> "ended", aborted |-> FALSE, reconnect |-> FALSE,
   ob |-> {}, tr |-> {}, recovering |-> FALSE]

\* ------------------------------------------------------------------------
\* Trader.subscribeField -> addRef -> addFirstRef(instrument, refs)
\* ------------------------------------------------------------------------
FirstRefCount == 1

addFirstRef(i, k) ==
  /\ refs' = [refs EXCEPT ![k][i] = [present |-> TRUE,
                                     refCount |-> FirstRefCount]]
  /\ figis' = figis \cup {i}
  /\ IF k = "orderbook"
     THEN /\ InFlight(i) < MaxCalls
          /\ calls' = calls (+) SetToBag({[sid |-> 0, instr |-> i, cur |-> TRUE]})
          /\ lastOrderbookData' = [lastOrderbookData EXCEPT ![i] = NoData]
          /\ UNCHANGED pending
     ELSE /\ pending' = resubscribeToMarketData(pending, FALSE)
          /\ UNCHANGED <<calls, lastOrderbookData>>

addRef(i, k) ==
  IF ~refs[k][i].present
  THEN addFirstRef(i, k)
  ELSE /\ refs' = [refs EXCEPT ![k][i].refCount = @ + 1]
       /\ UNCHANGED <<figis, calls, lastOrderbookData, pending>>

Subscribe(w, k) ==
  /\ w \notin subs[k]
  /\ subs' = [subs EXCEPT ![k] = @ \cup {w}]
  /\ net' = [net EXCEPT ![k][binding[w]] = @ + 1]
  /\ addRef(binding[w], k)
  /\ last' = Other
  /\ written' = NoWrites
  /\ UNCHANGED <<binding, sessions, timers>>
  /\ UNCHANGED histVars

\* ------------------------------------------------------------------------
\* Trader.unsubscribeField -> removeRef -> removeLastRef(instrument, refs)
\* ------------------------------------------------------------------------
\* a removeLastRef that leaves the entry in the map
RefsWithoutDelete(i, k) == refs

\* this.refs.orderbook.delete(instrument._id), this.refs.allTrades.delete(...)
RefsAfterDelete(i, k) == [refs EXCEPT ![k][i] = NoRef]

\* a removeLastRef that does not abort the stream
NeverAbortIfIdle(r, ss) == ss

\* lines 252-255
AbortIfIdle(r, ss) == IF NothingReferenced(r) THEN AbortController(ss) ELSE ss

removeLastRef(i, k) ==
  /\ refs' = RefsAfterDelete(i, k)
  /\ lastOrderbookData' =
       IF k = "orderbook" THEN [lastOrderbookData EXCEPT ![i] = NoData]
       ELSE lastOrderbookData
  /\ sessions' = AbortIfIdle(refs', sessions)
  /\ timers' = IF NothingReferenced(refs')
               THEN {[t EXCEPT !.emptied = TRUE] : t \in timers}
               ELSE timers

removeRef(i, k) ==
  IF refs[k][i].refCount - 1 = 0
  THEN removeLastRef(i, k)
  ELSE /\ refs' = [refs EXCEPT ![k][i].refCount = @ - 1]
       /\ UNCHANGED <<lastOrderbookData, sessions, timers>>

Unsubscribe(w, k) ==
  /\ w \in subs[k]
  /\ refs[k][binding[w]].present
  /\ subs' = [subs EXCEPT ![k] = @ \ {w}]
  /\ net' = [net EXCEPT ![k][binding[w]] = @ - 1]
  /\ removeRef(binding[w], k)
  /\ last' = Other
  /\ written' = NoWrites
  /\ UNCHANGED <<binding, figis, pending, calls>>
  /\ UNCHANGED histVars

\* ------------------------------------------------------------------------
\* #resubscribeToMarketData(reconnect), run when the debounce timer fires
\* ------------------------------------------------------------------------
\* a request that leaves the trades out
RequestOrderbookOnly(r, k) == IF k = "orderbook" THEN RefSet(r, k) ELSE {}

\* subscribeOrderBookRequest.instruments / subscribeTradesRequest.instruments
Request(r, k) == RefSet(r, k)

\* the depth of the order-book entries of the request
OrderbookDepth == 50

\* lines 106-120: the field is set only when the map has entries
subscribeOrderBookRequest(r) ==
  IF RefSet(r, "orderbook") # {}
  THEN [present |-> TRUE,
        instruments |-> {[instrumentId |-> i, depth |-> OrderbookDepth] :
                           i \in Request(r, "orderbook")}]
  ELSE Omitted

\* a request that always carries the trades field
TradesRequestAlways(r) ==
  [present |-> TRUE,
   instruments |-> {[instrumentId |-> i] : i \in Request(r, "allTrades")}]

\* lines 122-135: the field is set only when the map has entries
subscribeTradesRequest(r) ==
  IF RefSet(r, "allTrades") # {}
  THEN [present |-> TRUE,
        instruments |-> {[instrumentId |-> i] : i \in Request(r, "allTrades")}]
  ELSE Omitted

marketDataServerSideStreamRequest(r) ==
  [sent |-> TRUE,
   subscribeOrderBookRequest |-> subscribeOrderBookRequest(r),
   subscribeTradesRequest |-> subscribeTradesRequest(r)]

\* a catch that never sets the timer
CatchSilently(n, cause) == timers

\* a resubscribe that opens the new stream without aborting the previous one
NoAbortPrevious(ss) == ss

\* this.#marketDataAbortController?.abort?.() before the new AbortController
AbortPrevious(ss) == AbortController(ss)

\* a resubscribe without the early return
NeverReturnsEarly(r) == FALSE

\* the early return of lines 98-100
ReturnsEarly(r) == NothingReferenced(r)

\* the getOrderBook calls of the Promise.all, issued when reconnect is set
ReconnectCalls(n, reconnect) ==
  IF reconnect
  THEN {[sid |-> n, instr |-> i, cur |-> TRUE] : i \in RefSet(refs, "orderbook")}
  ELSE {}

NewSession(slot) ==
  [phase |-> IF ReconnectCalls(1, slot.reconnect) # {} THEN "snap"
             ELSE "streaming",
   aborted |-> FALSE,
   reconnect |-> slot.reconnect,
   ob |-> Request(refs, "orderbook"),
   tr |-> Request(refs, "allTrades"),
   recovering |-> slot.afterFailure]

DebounceFires ==
  /\ pending.armed
  /\ pending' = Idle
  /\ written' = NoWrites
  /\ IF ReturnsEarly(refs)
     THEN /\ UNCHANGED <<sessions, calls>>
          /\ last' = Fired(pending, NothingReferenced(refs), 0, FALSE,
                           NoRequest)
     ELSE /\ Len(sessions) < MaxSessions
          /\ \A c \in ReconnectCalls(0, pending.reconnect) :
               InFlight(c.instr) < MaxCalls
          /\ sessions' = Append(AbortPrevious(sessions), NewSession(pending))
          /\ calls' = calls (+) SetToBag(ReconnectCalls(Len(sessions) + 1,
                                                        pending.reconnect))
          /\ last' = Fired(pending, NothingReferenced(refs),
                           Len(sessions') - Len(sessions),
                           /\ sessions'[Len(sessions')].ob
                                = RefSet(refs, "orderbook")
                           /\ sessions'[Len(sessions')].tr
                                = RefSet(refs, "allTrades"),
                           marketDataServerSideStreamRequest(refs))
  /\ UNCHANGED <<binding, subs, refs, lastOrderbookData, figis, timers,
                 net>>
  /\ UNCHANGED histVars

\* ------------------------------------------------------------------------
\* catch (e) { if (!isAbortError(e)) setTimeout(resubscribe(true), ...) }
\* ------------------------------------------------------------------------
isAbortError(cause) == cause = "abort"

\* History kept with a timer: whether its session had been aborted when it
\* was set, and whether the ref maps became empty while it was pending.
Catch(n, cause) ==
  IF isAbortError(cause) THEN timers
  ELSE timers \cup {[sid |-> n, aborted |-> sessions[n].aborted,
                     emptied |-> FALSE]}

\* ------------------------------------------------------------------------
\* The getOrderBook unary calls
\* ------------------------------------------------------------------------
Snapshot(c) == [instr |-> c.instr, cur |-> c.cur, src |-> "snapshot"]

OthersInFlight(c) ==
  \E d \in BagToSet(calls (-) SetToBag({c})) : d.sid = c.sid

\* the response of the call of addFirstRef, or of one call of the Promise.all
SnapshotArrives(c) ==
  /\ BagIn(c, calls)
  /\ calls' = calls (-) SetToBag({c})
  /\ onOrderbookMessage(c.instr, Snapshot(c))
  /\ IF c.sid = 0
     THEN /\ pending' = resubscribeToMarketData(pending, FALSE)
          /\ UNCHANGED sessions
     ELSE /\ sessions' =
               IF sessions[c.sid].phase = "snap" /\ ~OthersInFlight(c)
               THEN [sessions EXCEPT ![c.sid].phase = "streaming"]
               ELSE sessions
          /\ UNCHANGED pending
  /\ last' = Applied(c.instr, Snapshot(c))
  /\ UNCHANGED <<binding, subs, refs, figis, timers, net>>
  /\ UNCHANGED histVars

\* the call rejects: addFirstRef rejects, or the Promise.all rejects at once
SnapshotFails(c) ==
  /\ BagIn(c, calls)
  /\ calls' = calls (-) SetToBag({c})
  /\ IF c.sid # 0 /\ sessions[c.sid].phase = "snap"
     THEN /\ timers' = Catch(c.sid, "unary")
          /\ sessions' = [sessions EXCEPT ![c.sid] = Ended(@)]
     ELSE UNCHANGED <<timers, sessions>>
  /\ last' = Failed(c, c.sid # 0 /\ sessions[c.sid].phase = "snap")
  /\ written' = NoWrites
  /\ UNCHANGED <<binding, subs, refs, lastOrderbookData, figis, pending,
                 net>>
  /\ UNCHANGED histVars

\* ------------------------------------------------------------------------
\* for await (const data of stream)
\* ------------------------------------------------------------------------
Consuming(n) == n \in 1..Len(sessions) /\ sessions[n].phase = "streaming"

\* this.#figis.get(figi)
Resolve(figi) == IF figi \in figis THEN figi ELSE "unresolved"

Delta(figi) == [instr |-> figi, cur |-> TRUE, src |-> "delta"]

Trade(figi) == [instr |-> figi, cur |-> TRUE, src |-> "trade"]

\* the body of the loop, lines 178-188
StreamData(kind, figi) ==
  /\ IF kind = "orderbook"
     THEN onOrderbookMessage(Resolve(figi), Delta(figi))
     ELSE onTradeMessage(Resolve(figi), Trade(figi))
  /\ last' = Routed(kind, figi, Resolve(figi) = figi)
  /\ UNCHANGED <<binding, subs, refs, figis, pending, sessions, calls, timers,
                 net>>
  /\ UNCHANGED histVars

\* the server sends what the request of the session subscribed to
StreamOrderbook(n, figi) ==
  /\ Consuming(n) /\ ~sessions[n].aborted
  /\ figi \in sessions[n].ob
  /\ StreamData("orderbook", figi)

StreamTrade(n, figi) ==
  /\ Consuming(n) /\ ~sessions[n].aborted
  /\ figi \in sessions[n].tr
  /\ StreamData("allTrades", figi)

\* the stream throws an error that is not a cancellation
StreamFails(n) ==
  /\ Consuming(n) /\ ~sessions[n].aborted
  /\ timers' = Catch(n, "stream")
  /\ sessions' = [sessions EXCEPT ![n] = Ended(@)]
  /\ last' = StreamFailed(n)
  /\ written' = NoWrites
  /\ UNCHANGED <<binding, subs, refs, lastOrderbookData, figis, pending,
                 calls, net>>
  /\ UNCHANGED histVars

\* the stream of an aborted session throws an AbortError
StreamAborted(n) ==
  /\ Consuming(n) /\ sessions[n].aborted
  /\ timers' = Catch(n, "abort")
  /\ sessions' = [sessions EXCEPT ![n] = Ended(@)]
  /\ last' = Other
  /\ written' = NoWrites
  /\ UNCHANGED <<binding, subs, refs, lastOrderbookData, figis, pending,
                 calls, net>>
  /\ UNCHANGED histVars

\* the transport closes the stream: the loop ends and line 191 runs
StreamEnds(n) ==
  /\ Consuming(n) /\ ~sessions[n].aborted
  /\ pending' = [resubscribeToMarketData(pending, TRUE)
                   EXCEPT !.afterEnd = TRUE]
  /\ sessions' = [sessions EXCEPT ![n] = Ended(@)]
  /\ last' = StreamEnded(n)
  /\ written' = NoWrites
  /\ UNCHANGED <<binding, subs, refs, lastOrderbookData, figis, calls,
                 timers, net>>
  /\ UNCHANGED histVars

\* the setTimeout callback of line 196
ReconnectTimerFires(t) ==
  /\ t \in timers
  /\ timers' = timers \ {t}
  /\ pending' = [resubscribeToMarketData(pending, TRUE)
                   EXCEPT !.afterFailure = TRUE, !.emptied = t.emptied]
  /\ last' = Other
  /\ written' = NoWrites
  /\ UNCHANGED <<binding, subs, refs, lastOrderbookData, figis, sessions, calls, net>>
  /\ UNCHANGED histVars

\* the order books change on the server: what was read from it before is old
Outdated(m) == [m EXCEPT !.cur = FALSE]

OutdatedCalls ==
  LET old == {Outdated(c) : c \in BagToSet(calls)}
  IN  [c \in old |-> (IF c \in DOMAIN calls THEN calls[c] ELSE 0)
                      + (IF [c EXCEPT !.cur = TRUE] \in DOMAIN calls
                         THEN calls[[c EXCEPT !.cur = TRUE]] ELSE 0)]

ServerBookChanges ==
  /\ calls' = OutdatedCalls
  /\ lastOrderbookData' = [i \in Instruments |-> Outdated(lastOrderbookData[i])]
  /\ last' = Other
  /\ written' = NoWrites
  /\ UNCHANGED <<binding, subs, refs, figis, pending, sessions, timers, net>>
  /\ UNCHANGED histVars

\* ------------------------------------------------------------------------
\* The trader after construction
\* ------------------------------------------------------------------------
InitTrader ==
  /\ binding = [w \in Widgets |-> "I1"]
  /\ subs = [k \in Kinds |-> {}]
  /\ refs = [k \in Kinds |-> [i \in Instruments |-> NoRef]]
  /\ lastOrderbookData = [i \in Instruments |-> NoData]
  /\ figis = {}
  /\ written = NoWrites
  /\ pending = Idle
  /\ sessions = <<>>
  /\ calls = EmptyBag
  /\ timers = {}
  /\ net = [k \in Kinds |-> [i \in Instruments |-> 0]]
  /\ last = Other

NoHistoryCall ==
  /\ trades = <<>>
  /\ depth = 0
  /\ instrument = FALSE
  /\ result = <<>>
  /\ returned = FALSE

NoConversion ==
  /\ value = [u |-> 0, n |-> 0, t |-> 0]
  /\ quotation = [units |-> 0, nano |-> 0]
  /\ number = [u |-> 0, n |-> 0, t |-> 0]
  /\ converted = FALSE

\* document.reconnectTimeout is absent or a number of ms
Unset == [set |-> FALSE, ms |-> 0]

NoBackoff ==
  /\ reconnectTimeout = Unset
  /\ now = 0
  /\ failedAt = 0 - 1
  /\ timerDue = 0 - 1
  /\ reopenAt = 0 - 1

Init == InitTrader /\ NoHistoryCall /\ NoConversion /\ NoBackoff

Next ==
  \/ \E w \in Widgets, k \in Kinds : Subscribe(w, k)
  \/ \E w \in Widgets, k \in Kinds : Unsubscribe(w, k)
  \/ DebounceFires
  \/ \E c \in BagToSet(calls) : SnapshotArrives(c)
  \/ \E c \in BagToSet(calls) : SnapshotFails(c)
  \/ \E n \in 1..Len(sessions), i \in Instruments : StreamOrderbook(n, i)
  \/ \E n \in 1..Len(sessions), i \in Instruments : StreamTrade(n, i)
  \/ \E n \in 1..Len(sessions) : StreamFails(n)
  \/ \E n \in 1..Len(sessions) : StreamAborted(n)
  \/ \E n \in 1..Len(sessions) : StreamEnds(n)
  \/ \E t \in timers : ReconnectTimerFires(t)
  \/ ServerBookChanges

Spec == Init /\ [][Next]_vars

\* Timers and the transport are fair: a reconnect timer that is set fires,
\* an armed debounce fires, and a getOrderBook call resolves or rejects.  The
\* fairness of the debounce is strong because it is the bounds of the model,
\* not the code, that can disable its firing for a while.
Fairness ==
  /\ WF_vars(\E t \in timers : ReconnectTimerFires(t))
  /\ SF_vars(DebounceFires)
  /\ WF_vars(\E c \in BagToSet(calls) : SnapshotArrives(c) \/ SnapshotFails(c))

SpecLive == Spec /\ Fairness

TypeOK ==
  /\ \A k \in Kinds : subs[k] \subseteq Widgets
  /\ figis \subseteq Instruments
  /\ Len(sessions) <= MaxSessions
  /\ \A i \in Instruments : InFlight(i) <= MaxCalls

\* ------------------------------------------------------------------------
\* The message router on its own: the entries of widgets bound to different
\* instruments, and stream messages that name any instrument, referenced
\* (resolved by this.#figis) or not.
\* ------------------------------------------------------------------------
InitRoute ==
  /\ binding = [w \in Widgets |-> IF w = "w1" THEN "I1" ELSE "I2"]
  /\ subs = [k \in Kinds |-> {}]
  /\ refs = [k \in Kinds |-> [i \in Instruments |-> NoRef]]
  /\ lastOrderbookData = [i \in Instruments |-> NoData]
  /\ figis = {}
  /\ written = NoWrites
  /\ pending = Idle
  /\ sessions = <<>>
  /\ calls = EmptyBag
  /\ timers = {}
  /\ net = [k \in Kinds |-> [i \in Instruments |-> 0]]
  /\ last = Other
  /\ NoHistoryCall
  /\ NoConversion
  /\ NoBackoff

NextRoute ==
  \/ \E w \in Widgets, k \in Kinds : Subscribe(w, k)
  \/ \E w \in Widgets, k \in Kinds : Unsubscribe(w, k)
  \/ \E c \in BagToSet(calls) : SnapshotArrives(c)
  \/ \E c \in BagToSet(calls) : SnapshotFails(c)
  \/ \E k \in Kinds, figi \in Instruments : StreamData(k, figi)
  \/ ServerBookChanges

SpecRoute == InitRoute /\ [][NextRoute]_vars

\* ------------------------------------------------------------------------
\* The reconnect path of the order books of two instruments: the widgets are
\* bound to different instruments and subscribe to the order book only.
\* ------------------------------------------------------------------------
NextReconnect ==
  \/ \E w \in Widgets : Subscribe(w, "orderbook")
  \/ DebounceFires
  \/ \E c \in BagToSet(calls) : SnapshotArrives(c)
  \/ \E c \in BagToSet(calls) : SnapshotFails(c)
  \/ \E n \in 1..Len(sessions), i \in Instruments : StreamOrderbook(n, i)
  \/ \E n \in 1..Len(sessions) : StreamFails(n)
  \/ \E n \in 1..Len(sessions) : StreamAborted(n)
  \/ \E t \in timers : ReconnectTimerFires(t)

SpecReconnect == InitRoute /\ [][NextReconnect]_vars

\* ------------------------------------------------------------------------
\* allTrades({ instrument, depth })
\* ------------------------------------------------------------------------
TradeDirections ==
  {"TRADE_DIRECTION_UNSPECIFIED", "TRADE_DIRECTION_BUY", "TRADE_DIRECTION_SELL"}

\* the responses of getLastTrades: trades in the order of their time
TradeLists ==
  UNION {[1..n -> TradeDirections] : n \in 0..MaxTrades}

Response(dirs) ==
  [j \in 1..Len(dirs) |-> [time |-> j, direction |-> dirs[j]]]

\* Array.prototype.slice(start): a negative start counts from the end
Slice(s, start) ==
  LET k == IF start < 0 THEN Max(Len(s) + start, 0) ELSE Min(start, Len(s))
  IN  [j \in 1..(Len(s) - k) |-> s[k + j]]

\* Array.prototype.reverse()
Reverse(s) == [j \in 1..Len(s) |-> s[Len(s) + 1 - j]]

Side(direction) ==
  IF direction = "TRADE_DIRECTION_BUY" THEN "buy"
  ELSE IF direction = "TRADE_DIRECTION_SELL" THEN "sell"
  ELSE ""

\* the object built for one trade, lines 315-333
TradePrint(trade) ==
  [orderId |-> <<"symbol", trade.direction, trade.time>>,
   side |-> Side(trade.direction),
   timestamp |-> trade.time]

allTrades(present, d, response) ==
  IF present
  THEN LET kept == Reverse(Slice(response, 0 - d))
       IN  [j \in 1..Len(kept) |-> TradePrint(kept[j])]
  ELSE <<>>

AllTradesReturns ==
  /\ ~returned
  /\ result' = allTrades(instrument, depth, trades)
  /\ returned' = TRUE
  /\ UNCHANGED <<binding, subs, refs, lastOrderbookData, figis, written,
                 pending, sessions, calls, timers, net, last,
                 trades, depth, instrument>>
  /\ UNCHANGED <<quoteVars, backoffVars>>

InitHistory ==
  /\ InitTrader
  /\ trades \in {Response(dirs) : dirs \in TradeLists}
  /\ depth \in 0..MaxDepth
  /\ instrument \in BOOLEAN
  /\ result = <<>>
  /\ returned = FALSE
  /\ NoConversion
  /\ NoBackoff

SpecHistory == InitHistory /\ [][AllTradesReturns]_vars

\* ------------------------------------------------------------------------
\* toQuotation(value) and toNumber(value)
\* A number is kept in decimal fixed point, one digit finer than the nano:
\* [u, n, t] stands for u + n / 10^9 + t / 10^10, with u any integer,
\* n in 0..10^9 - 1 and t in 0..9.
\* ------------------------------------------------------------------------
Nano == 1000000000

MaxUnits == 1

NanoSamples == {0, 1, 499999999, 500000000, 999999999}

TenthSamples == {0, 4, 5, 9}

Numbers ==
  {[u |-> u, n |-> n, t |-> t] :
     u \in (0 - MaxUnits - 1)..MaxUnits, n \in NanoSamples, t \in TenthSamples}

\* x < 0
IsNegative(x) == x.u < 0

\* -x
Negated(x) ==
  IF x.t > 0
  THEN [u |-> 0 - x.u - 1, n |-> Nano - 1 - x.n, t |-> 10 - x.t]
  ELSE IF x.n > 0
  THEN [u |-> 0 - x.u - 1, n |-> Nano - x.n, t |-> 0]
  ELSE [u |-> 0 - x.u, n |-> 0, t |-> 0]

\* Math.abs(x)
Abs(x) == IF IsNegative(x) THEN Negated(x) ELSE x

\* Math.round((absValue - units) * 1000000000): a half rounds up
RoundNano(absValue) == absValue.n + (IF absValue.t >= 5 THEN 1 ELSE 0)

toQuotation(v) ==
  LET sign == IF IsNegative(v) THEN 0 - 1 ELSE 1
      absValue == Abs(v)
      units == absValue.u
      nano == RoundNano(absValue)
  IN  [units |-> sign * units, nano |-> sign * nano]

\* a toNumber that drops the nano
UnitsOnly(q) == [u |-> q.units, n |-> 0, t |-> 0]

\* value.units + value.nano / 1000000000, of a quotation that is not null
toNumber(q) ==
  [u |-> q.units + (q.nano \div Nano), n |-> q.nano % Nano, t |-> 0]

Converts ==
  /\ ~converted
  /\ quotation' = toQuotation(value)
  /\ number' = toNumber(quotation')
  /\ converted' = TRUE
  /\ UNCHANGED <<binding, subs, refs, lastOrderbookData, figis, written,
                 pending, sessions, calls, timers, net, last, value>>
  /\ UNCHANGED <<tradeVars, backoffVars>>

InitQuotation ==
  /\ InitTrader
  /\ NoHistoryCall
  /\ NoBackoff
  /\ value \in Numbers
  /\ quotation = [units |-> 0, nano |-> 0]
  /\ number = [u |-> 0, n |-> 0, t |-> 0]
  /\ converted = FALSE

SpecQuotation == InitQuotation /\ [][Converts]_vars

\* ------------------------------------------------------------------------
\* The delay of the reconnect:
\* setTimeout(..., Math.max(this.document.reconnectTimeout ?? 1000, 1000))
\* ------------------------------------------------------------------------
DefaultReconnectTimeout == 1000

ReconnectFloor == 1000

MaxTicks == 12

Times == {250 * k : k \in 0..MaxTicks}

Timeouts == {Unset} \cup {[set |-> TRUE, ms |-> v] : v \in {0, 500, 1000, 1500}}

\* a delay without the floor
DelayWithoutFloor(t) == IF t.set THEN t.ms ELSE DefaultReconnectTimeout

ReconnectDelay(t) ==
  Max(IF t.set THEN t.ms ELSE DefaultReconnectTimeout, ReconnectFloor)

Tick ==
  /\ \E t \in Times : t > now /\ now' = t
  /\ UNCHANGED <<reconnectTimeout, failedAt, timerDue, reopenAt>>

\* the stream throws an error that is not a cancellation: the catch sets the
\* timer
SessionFails ==
  /\ failedAt < 0
  /\ failedAt' = now
  /\ timerDue' = now + ReconnectDelay(reconnectTimeout)
  /\ UNCHANGED <<reconnectTimeout, now, reopenAt>>

\* the callback of the setTimeout runs, not before the timer is due
TimerExpires ==
  /\ timerDue >= 0 /\ now >= timerDue
  /\ reopenAt' = now
  /\ timerDue' = 0 - 1
  /\ UNCHANGED <<reconnectTimeout, now, failedAt>>

NextBackoff ==
  /\ Tick \/ SessionFails \/ TimerExpires
  /\ UNCHANGED <<binding, subs, refs, lastOrderbookData, figis, written,
                 pending, sessions, calls, timers, net, last>>
  /\ UNCHANGED <<tradeVars, quoteVars>>

InitBackoff ==
  /\ InitTrader
  /\ NoHistoryCall
  /\ NoConversion
  /\ reconnectTimeout \in Timeouts
  /\ now = 0
  /\ failedAt = 0 - 1
  /\ timerDue = 0 - 1
  /\ reopenAt = 0 - 1

SpecBackoff == InitBackoff /\ [][NextBackoff]_vars

\* ------------------------------------------------------------------------
\* Properties
\* ------------------------------------------------------------------------

\* C1: at most one stream session is live at any time, and every session but
\* the one opened last has been cancelled or has ended: opening a session
\* aborts the controller of the previous one first.
C1_AtMostOneLiveSession ==
  /\ Cardinality(LiveSessions) <= 1
  /\ \A n \in 1..Len(sessions) : n < Len(sessions) => ~Live(sessions[n])

\* C1 witness: a session was superseded while it was still running, and the
\* session that replaced it is live.
C1_Superseded ==
  /\ Len(sessions) >= 2
  /\ sessions[1].phase # "ended" /\ sessions[1].aborted
  /\ Live(sessions[2])

\* C2: whenever both ref maps are empty, no stream session is live.
C2_NoSessionWhenNothingReferenced ==
  NothingReferenced(refs) => LiveSessions = {}

\* C2 witness: the last ref was removed while a session was running and a
\* debounced resubscribe was pending; the session is cancelled.
C2_CancelledByLastRemoval ==
  /\ NothingReferenced(refs)
  /\ pending.armed
  /\ Len(sessions) >= 1
  /\ sessions[Len(sessions)].phase # "ended"
  /\ sessions[Len(sessions)].aborted

\* C3: the reference count of every (kind, instrument) equals the number of
\* subscribes minus the number of unsubscribes and is never negative; the
\* entry exists exactly when that difference is not 0.
C3_RefCountIsSubscribesMinusUnsubscribes ==
  \A k \in Kinds, i \in Instruments :
    /\ net[k][i] >= 0
    /\ refs[k][i].refCount >= 0
    /\ refs[k][i].refCount = net[k][i]
    /\ refs[k][i].present <=> net[k][i] # 0

\* C3 witness: an entry counts two subscribers, the entry of the other kind
\* is absent and a debounced resubscribe is pending.
C3_TwoSubscribers ==
  /\ refs["orderbook"]["I1"].refCount = 2
  /\ ~refs["allTrades"]["I1"].present
  /\ pending.armed

\* C4 as stated: every firing of the debounce opens exactly one stream, whose
\* request lists the instruments referenced when it fires.
C4_EveryFiringOpensOneStream ==
  last.op = "fire" => (last.opened = 1 /\ last.reqOK)

\* C4 amended: a firing of the debounce opens exactly one stream when a ref
\* map is non-empty, with a request that lists the instruments referenced
\* when it fires, and opens none when both ref maps are empty.
C4_OneStreamPerFiring ==
  last.op = "fire" =>
    IF last.empty THEN last.opened = 0
    ELSE last.opened = 1 /\ last.reqOK

\* C4 witness: several requests were collapsed into one firing, which opened
\* one stream for the instruments of both kinds.
C4_ManyRequestsOneStream ==
  /\ last.op = "fire" /\ last.many /\ last.opened = 1
  /\ sessions[Len(sessions)].ob = {"I1"}
  /\ sessions[Len(sessions)].tr = {"I1"}

\* C5: a session reopened after a failure of the previous one consumes the
\* stream only after the snapshots of the referenced order-book instruments
\* were fetched again, that is, it was opened with the reconnect flag.
C5_ReopenedSessionResyncs ==
  \A n \in 1..Len(sessions) :
    (Consuming(n) /\ sessions[n].recovering /\ sessions[n].ob # {})
      => sessions[n].reconnect

\* C6: no reconnect timer is ever set on behalf of a session that had been
\* cancelled.
C6_CancelledSessionNeverReconnects ==
  \A t \in timers : ~t.aborted

\* C7: when the debounced resubscribe of a reconnect fires while both ref
\* maps are empty, it opens no session and no session is live.
C7_EmptyFiringOpensNothing ==
  (last.op = "fire" /\ last.reconnect /\ last.empty)
    => (last.opened = 0 /\ LiveSessions = {})

\* C7 witness: the ref maps became empty while a reconnect timer was pending,
\* the timer fired and its debounced resubscribe fired on empty ref maps.
C7_TimerFiredOnEmptyRefs ==
  /\ last.op = "fire" /\ last.reconnect /\ last.afterFailure
  /\ last.emptied /\ last.empty

\* C8: a snapshot is never applied over a newer streaming delta of the same
\* instrument.
C8_SnapshotNeverOverwritesNewerDelta ==
  last.op = "snapshot" => ~last.overwrote

\* C9: routing a message writes only to fields of entries of the kind of the
\* message whose widget is bound to the instrument of the message; a message
\* whose instrument is unresolved or has no bound entry writes no field.
C9_WritesOnlyBoundEntries ==
  /\ \A w \in Widgets, k \in Kinds :
       written[w][k] # NoWrite =>
         /\ w \in subs[k]
         /\ last.kind = k /\ written[w][k].datum = k
         /\ last.figi = binding[w] /\ written[w][k].instr = binding[w]
  /\ ( /\ last.op = "message"
       /\ \/ ~last.resolved
          \/ ~\E w \in subs[last.kind] : binding[w] = last.figi )
       => written = NoWrites

\* C9 witness: a book message for I1 was written to the entry of the widget
\* bound to I1 and not to the entry of the widget bound to I2.
C9_RoutedToBoundWidgetOnly ==
  /\ last.op = "message" /\ last.kind = "orderbook" /\ last.figi = "I1"
  /\ written["w1"]["orderbook"] # NoWrite
  /\ "w2" \in subs["orderbook"]
  /\ written["w2"] = NoWrites["w2"]

\* C10: allTrades returns the min(depth, n) most recent trades, newest
\* first, and the empty sequence when the instrument is absent.
C10_MostRecentNewestFirst ==
  LET n == Len(trades)
      MostRecent == [j \in 1..Min(depth, n) |-> TradePrint(trades[n + 1 - j])]
  IN  returned => result = IF instrument THEN MostRecent ELSE <<>>

\* C11: toNumber(toQuotation(x)) is within 10^-9 of x, for positive, negative
\* and zero x.
C11_RoundTripWithinNano ==
  LET Leq(a, b) == \/ a.u < b.u
                   \/ a.u = b.u /\ a.n < b.n
                   \/ a.u = b.u /\ a.n = b.n /\ a.t <= b.t
      PlusNano(a) == IF a.n + 1 = 1000000000
                     THEN [u |-> a.u + 1, n |-> 0, t |-> a.t]
                     ELSE [a EXCEPT !.n = @ + 1]
  IN  converted =>
        (Leq(number, PlusNano(value)) /\ Leq(value, PlusNano(number)))

\* C11 witness: a negative number with digits below the nano was converted
\* and came back as another number.
C11_NegativeRounded ==
  /\ converted
  /\ IsNegative(value) /\ Abs(value).t = 5
  /\ number # value

\* C18: the units and the nano of a quotation returned by toQuotation have
\* agreeing signs, and the magnitude of the nano is below 10^9.
C18_NanoBelowOneUnit ==
  converted =>
    /\ ~(quotation.units > 0 /\ quotation.nano < 0)
    /\ ~(quotation.units < 0 /\ quotation.nano > 0)
    /\ quotation.nano < Nano
    /\ quotation.nano > 0 - Nano

\* C12: a stream request lists, for each kind with a ref, exactly the
\* instruments referenced for that kind when it is built (order-book entries
\* with depth 50) and leaves out a kind without refs; no request is sent when
\* both ref maps are empty.
C12_RequestListsTheRefs ==
  last.op = "fire" =>
    IF NothingReferenced(refs)
    THEN ~last.request.sent /\ last.opened = 0
    ELSE /\ last.request.sent
         /\ last.request.subscribeOrderBookRequest.present
              <=> RefSet(refs, "orderbook") # {}
         /\ last.request.subscribeOrderBookRequest.instruments
              = {[instrumentId |-> i, depth |-> 50] :
                   i \in RefSet(refs, "orderbook")}
         /\ last.request.subscribeTradesRequest.present
              <=> RefSet(refs, "allTrades") # {}
         /\ last.request.subscribeTradesRequest.instruments
              = {[instrumentId |-> i] : i \in RefSet(refs, "allTrades")}

\* C12 witness: a request was sent with the order book of I1 and without the
\* trades field.
C12_OrderbookOnlyRequest ==
  /\ last.op = "fire" /\ last.request.sent
  /\ last.request.subscribeOrderBookRequest.instruments
       = {[instrumentId |-> "I1", depth |-> 50]}
  /\ ~last.request.subscribeTradesRequest.present

\* C14: when the getOrderBook call of addFirstRef fails and the ref is still
\* registered, a resubscribe is requested.
C14_FailedSeedStillResubscribes ==
  (last.op = "failure" /\ last.sid = 0
     /\ refs["orderbook"][last.figi].present)
    => pending.armed

\* C15: when one getOrderBook call of the Promise.all of a reconnect fails
\* while another one is still in flight, the session is not given up: it
\* goes on to consume the stream.
C15_ReconnectSurvivesOneFailure ==
  (last.op = "failure" /\ last.awaited
     /\ \E d \in BagToSet(calls) : d.sid = last.sid)
    => sessions[last.sid].phase # "ended"

\* C17: every order-book message, snapshot or streaming delta, for an
\* instrument that has an order-book ref replaces the cached book of that ref
\* with the book of the message.
C17_MessageReplacesCache ==
  /\ (last.op = "snapshot" /\ refs["orderbook"][last.figi].present)
       => lastOrderbookData[last.figi]
            = [instr |-> last.figi, cur |-> last.cur, src |-> "snapshot"]
  /\ (last.op = "message" /\ last.kind = "orderbook" /\ last.resolved
        /\ refs["orderbook"][last.figi].present)
       => lastOrderbookData[last.figi]
            = [instr |-> last.figi, cur |-> TRUE, src |-> "delta"]

\* C17 witness: an outdated snapshot for I1 arrived while I1 had an
\* order-book ref, and the cache of I1 holds it.
C17_SnapshotCached ==
  /\ last.op = "snapshot" /\ last.figi = "I1" /\ ~last.cur
  /\ refs["orderbook"]["I1"].present
  /\ lastOrderbookData["I1"].src = "snapshot"

\* C19: in a quiescent state (no resubscribe pending, no snapshot call in
\* flight, no reconnect timer pending) the request of a live session lists
\* the instruments referenced now, for each kind.
C19_LiveRequestEqualsRefs ==
  (~pending.armed /\ BagCardinality(calls) = 0 /\ timers = {})
    => \A n \in LiveSessions :
         /\ sessions[n].ob = RefSet(refs, "orderbook")
         /\ sessions[n].tr = RefSet(refs, "allTrades")

\* C16: the reopen triggered by a session failure happens no earlier than
\* max(reconnectTimeout, 1000 ms) after the failure, whether reconnectTimeout
\* is absent, zero, below 1000 or above.
C16_ReopenNotBeforeFloor ==
  reopenAt >= 0 =>
    /\ reopenAt - failedAt >= 1000
    /\ reconnectTimeout.set => reopenAt - failedAt >= reconnectTimeout.ms

\* C16 witness: with reconnectTimeout 0 the reopen came 1000 ms after the
\* failure.
C16_ZeroTimeoutWaitsFloor ==
  /\ reconnectTimeout.set /\ reconnectTimeout.ms = 0
  /\ failedAt > 0
  /\ reopenAt = failedAt + 1000

\* C13: when a session ends with an error that is not a cancellation, then
\* eventually a new session is opened or the ref maps are empty.
C13_FailureLeadsToReopen ==
  \A n \in 1..(MaxSessions - 1) :
    (last.sid = n /\ (last.op = "streamFailure"
                      \/ (last.op = "failure" /\ last.awaited)))
      ~> (Len(sessions) > n \/ NothingReferenced(refs))

\* C13 witness: the first session has ended, its reconnect timer has fired
\* and the session opened after that is live.
C13_ReopenedAfterFailure ==
  /\ Len(sessions) = 2
  /\ sessions[1].phase = "ended"
  /\ sessions[2].recovering /\ Live(sessions[2])
  /\ ~NothingReferenced(refs)

\* C20: when the stream ends without an error a resubscribe with the
\* reconnect flag is requested, and the session opened after it has the
\* order-book snapshots fetched again, that is, it is opened with the
\* reconnect flag.
C20_CleanEndResyncs ==
  /\ last.op = "streamEnd" => (pending.armed /\ pending.reconnect)
  /\ (last.op = "fire" /\ last.afterEnd /\ last.opened = 1
        /\ sessions[Len(sessions)].ob # {})
       => last.reconnect

=============================================================================
